---- MODULE Spec2Model ----
(***************************************************************************)
(* Renderer batch storage of src/src/renderer/batch.rs                     *)
(* (RenderDataBatchStorage: push, sort).                                   *)
(*                                                                         *)
(* A 64-bit word is a tuple of 8 bytes, least significant first, so that   *)
(* the wrapping arithmetic of the hasher keeps its full width.             *)
(***************************************************************************)
EXTENDS Integers, Sequences, FiniteSets, TLC

\* Number of push calls explored.
MaxPushes == 3

(***************************************************************************)
(* 64-bit words                                                            *)
(***************************************************************************)

\* `x as usize` of a small unsigned value (u8, u32 discriminant): zero-extended.
Word(n) == [i \in 1..8 |-> IF i <= 4 THEN (n \div (256 ^ (i - 1))) % 256 ELSE 0]

RECURSIVE BitXor(_, _)
BitXor(a, b) ==
    IF a = 0 THEN b
    ELSE IF b = 0 THEN a
    ELSE ((a + b) % 2) + 2 * BitXor(a \div 2, b \div 2)

\* u64 ^ u64
WordXor(x, w) == [i \in 1..8 |-> BitXor(x[i], w[i])]

\* u64::rotate_left(5)
RotateLeft5(x) ==
    [i \in 1..8 |-> ((x[i] * 32) % 256) + (x[IF i = 1 THEN 8 ELSE i - 1] \div 8)]

RECURSIVE ColumnSum(_, _, _, _)
ColumnSum(a, b, k, i) ==
    IF i > k THEN 0 ELSE a[i] * b[k + 1 - i] + ColumnSum(a, b, k, i + 1)

RECURSIVE MulLimbs(_, _, _, _)
MulLimbs(a, b, k, carry) ==
    IF k > 8 THEN <<>>
    ELSE LET s == carry + ColumnSum(a, b, k, 1)
         IN  <<s % 256>> \o MulLimbs(a, b, k + 1, s \div 256)

\* u64::wrapping_mul: the product modulo 2^64
WrappingMul(a, b) == MulLimbs(a, b, 1, 0)

\* The multiplier of the Fx hash, 0x517cc1b727220a95.
SEED64 == <<149, 10, 34, 39, 183, 193, 124, 81>>

\* FxHasher::default(): the hash starts at 0.
FxDefault == Word(0)

\* One write_u8 / write_u32 / write_u64 step of FxHasher on a 64-bit target:
\* hash = (hash.rotate_left(5) ^ word).wrapping_mul(SEED)
HashWord(hash, word) == WrappingMul(WordXor(RotateLeft5(hash), word), SEED64)

(***************************************************************************)
(* Inputs                                                                  *)
(***************************************************************************)

\* SharedMaterial::key() and SurfaceSharedData::key() values (addresses of the
\* shared allocations).
M1 == <<16, 16, 0, 92, 58, 127, 0, 0>>      \* 0x00007f3a5c001010
M2 == <<160, 28, 132, 94, 58, 127, 0, 0>>   \* 0x00007f3a5e841ca0
D1 == <<64, 74, 32, 92, 58, 127, 0, 0>>     \* 0x00007f3a5c204a40
D2 == <<64, 68, 66, 173, 242, 47, 0, 0>>    \* 0x00002ff2ad424440

MaterialKeys == {M1, M2}
DataKeys == {D1, D2}

\* RenderPath as u32
Deferred == 0
Forward == 1
RenderPaths == {Deferred, Forward}

\* decal_layer_index: u8
DecalLayers == {0, 1}

\* sort_index: u64
SortIndices == {10, 20, 30}

\* bone_matrices of a SurfaceInstanceData: empty, or one bone matrix.
BoneMatrices == {<<>>, <<"identity">>}

\* The grouping arguments of a push call: material, data, bone matrices of the
\* instance, render path and decal layer index.
GroupingArgs ==
    [material : MaterialKeys, data : DataKeys, bone_matrices : BoneMatrices,
     render_path : RenderPaths, decal_layer_index : DecalLayers]

BaseArgs ==
    [material |-> M1, data |-> D1, bone_matrices |-> <<>>,
     render_path |-> Deferred, decal_layer_index |-> 0]

Differences(a, b) == Cardinality({f \in DOMAIN a : a[f] # b[f]})

\* The calls explored: the base surface and every surface that differs from it
\* in one grouping argument.
PushArgs == {a \in GroupingArgs : Differences(a, BaseArgs) <= 1}

(***************************************************************************)
(* RenderDataBatchStorage                                                  *)
(***************************************************************************)

VARIABLES
    batch_map,   \* FxHashMap<u64, usize>: key -> index into batches (from 0)
    batches,     \* Vec<RenderDataBatch>
    calls,       \* history: the arguments of the push calls made so far
    last,        \* the method that returned last: "new", "push" or "sort"
    \* from_graph
    graph,       \* the nodes of the Graph, in linear order
    passes,      \* the from_graph calls in flight, each with its own storage
    \* ParticleSystemPreviewControlPanel and the editor state it works on
    selection,               \* editor_scene.selection
    scene_graph,             \* engine.scenes[editor_scene.scene].graph
    particle_systems_state,  \* Vec<(Handle<Node>, Node)>
    node_overrides,          \* editor_scene.graph_switches.node_overrides
    preview_checked,         \* the state of the preview check box
    window_open,             \* whether the panel's window is open
    panic,                   \* the assertion that failed, or "none"
    handled                  \* history: the message handled last and the
                             \* data the handler found

storageVars == <<batch_map, batches, calls, last>>

graphVars == <<graph, passes>>

panelVars ==
    <<selection, scene_graph, particle_systems_state, node_overrides,
      preview_checked, window_open, panic, handled>>

vars == <<storageVars, graphVars, panelVars>>

\* The key computed at the start of push.
FxKey(material, data, is_skinned, decal_layer_index, render_path) ==
    HashWord(
        HashWord(
            HashWord(
                HashWord(
                    HashWord(FxDefault, material),
                    data),
                Word(IF is_skinned THEN 1 ELSE 0)),
            Word(decal_layer_index)),
        Word(render_path))

\* The keys of all inputs, computed once.
KeyTable ==
    [m \in MaterialKeys, d \in DataKeys, s \in BOOLEAN, dl \in DecalLayers,
     rp \in RenderPaths |-> FxKey(m, d, s, dl, rp)]

Key(material, data, is_skinned, decal_layer_index, render_path) ==
    KeyTable[material, data, is_skinned, decal_layer_index, render_path]

\* FxHashMap::insert
MapInsert_forgotten(map, key, index) == map

\* The index recorded after the batch was pushed: one too large
MapInsert_after_push(map, key, index) ==
    [k \in DOMAIN map \cup {key} |-> IF k = key THEN index + 1 ELSE map[k]]

MapInsert(map, key, index) ==
    [k \in DOMAIN map \cup {key} |-> IF k = key THEN index ELSE map[k]]

\* The batch pushed onto batches when the key is new.
RenderDataBatch(data, sort_index, material, is_skinned, render_path, decal_layer_index) ==
    [data |-> data, sort_index |-> sort_index, instances |-> <<>>,
     material |-> material, is_skinned |-> is_skinned,
     render_path |-> render_path, decal_layer_index |-> decal_layer_index]

\* Vec::push of the instance
PushInstance_front(instances, instance_data) == <<instance_data>> \o instances

\* The instance list replaced by the new instance
PushInstance_replace(instances, instance_data) == <<instance_data>>

PushInstance(instances, instance_data) == Append(instances, instance_data)

\* batch.instances.push(instance_data) on the batch at `index` (from 0)
WithInstance(bs, index, instance_data) ==
    [bs EXCEPT ![index + 1].instances = PushInstance(@, instance_data)]

\* self.batches.last_mut()
LastIndex_first(bs) == 0

LastIndex(bs) == Len(bs) - 1

\* push with the sort index of an existing batch overwritten by the caller's
push_last_writer(self, data, material, render_path, decal_layer_index, sort_index, instance_data) ==
    LET is_skinned == instance_data.bone_matrices # <<>>
        key == Key(material, data, is_skinned, decal_layer_index, render_path)
    IN  IF key \in DOMAIN self.batch_map
        THEN [batch_map |-> self.batch_map,
              batches |-> WithInstance(
                  [self.batches EXCEPT
                      ![self.batch_map[key] + 1].sort_index = sort_index],
                  self.batch_map[key], instance_data)]
        ELSE LET pushed == Append(self.batches,
                     RenderDataBatch(data, sort_index, material, is_skinned,
                                     render_path, decal_layer_index))
             IN  [batch_map |-> MapInsert(self.batch_map, key, Len(self.batches)),
                  batches |-> WithInstance(pushed, LastIndex(pushed), instance_data)]

\* RenderDataBatchStorage::push. The index found in the map is always below
\* batches.len() (sort keeps the length), so get_mut(..).unwrap() succeeds.
push(self, data, material, render_path, decal_layer_index, sort_index, instance_data) ==
    LET is_skinned == instance_data.bone_matrices # <<>>
        key == Key(material, data, is_skinned, decal_layer_index, render_path)
    IN  IF key \in DOMAIN self.batch_map
        THEN [batch_map |-> self.batch_map,
              batches |-> WithInstance(self.batches, self.batch_map[key],
                                       instance_data)]
        ELSE LET pushed == Append(self.batches,
                     RenderDataBatch(data, sort_index, material, is_skinned,
                                     render_path, decal_layer_index))
             IN  [batch_map |-> MapInsert(self.batch_map, key, Len(self.batches)),
                  batches |-> WithInstance(pushed, LastIndex(pushed), instance_data)]

\* The comparison of sort_unstable_by_key(|b| b.sort_index)
KeyLessEq_reversed(a, b) == a.sort_index >= b.sort_index

KeyLessEq(a, b) == a.sort_index <= b.sort_index

IsSorted(bs) == \A i, j \in 1..Len(bs) : i < j => KeyLessEq(bs[i], bs[j])

Permuted(bs, p) == [i \in 1..Len(bs) |-> bs[p[i]]]

\* A sort that keeps one batch per sort index
sort_unique(bs) ==
    {r \in UNION {[1..n -> {bs[i] : i \in 1..Len(bs)}] : n \in 0..Len(bs)} :
        /\ \A i, j \in 1..Len(r) : i < j => r[i].sort_index < r[j].sort_index
        /\ {r[i].sort_index : i \in 1..Len(r)} = {bs[i].sort_index : i \in 1..Len(bs)}}

\* A sort that reorders batches of equal sort_index even in a sorted vector
sort_any_order(bs) ==
    {r \in {Permuted(bs, p) : p \in Permutations(1..Len(bs))} : IsSorted(r)}

\* The results sort_unstable_by_key may leave in batches. A vector that is
\* already in order is left as it is (the library's sort finds nothing to
\* move); otherwise the result is some ordering of the same batches that is
\* sorted by sort_index, batches with equal sort_index in any relative order.
sort(bs) ==
    IF IsSorted(bs) THEN {bs}
    ELSE {r \in {Permuted(bs, p) : p \in Permutations(1..Len(bs))} : IsSorted(r)}

(***************************************************************************)
(* The storage as a state machine                                          *)
(***************************************************************************)

\* No from_graph call is made.
GraphIdle == graph = <<>> /\ passes = <<>>

\* No panel exists.
PanelIdle ==
    /\ selection = [kind |-> "None", nodes |-> <<>>]
    /\ scene_graph = <<>>
    /\ particle_systems_state = <<>>
    /\ node_overrides = {}
    /\ preview_checked = FALSE
    /\ window_open = FALSE
    /\ panic = "none"
    /\ handled = [message |-> "none"]

\* RenderDataBatchStorage::default()
StorageInit ==
    /\ batch_map = <<>>
    /\ batches = <<>>
    /\ calls = <<>>
    /\ last = "new"

Init == StorageInit /\ GraphIdle /\ PanelIdle

\* One call of push; the instance carries the number of the call as `id`,
\* standing for the moved SurfaceInstanceData value.
Push ==
    /\ Len(calls) < MaxPushes
    /\ \E a \in PushArgs, sort_index \in SortIndices :
        LET instance_data == [id |-> Len(calls) + 1,
                              bone_matrices |-> a.bone_matrices]
            self == push([batch_map |-> batch_map, batches |-> batches],
                         a.data, a.material, a.render_path,
                         a.decal_layer_index, sort_index, instance_data)
        IN  /\ batch_map' = self.batch_map
            /\ batches' = self.batches
            /\ calls' = Append(calls,
                   [data |-> a.data, material |-> a.material,
                    render_path |-> a.render_path,
                    decal_layer_index |-> a.decal_layer_index,
                    sort_index |-> sort_index, instance_data |-> instance_data])
    /\ last' = "push"
    /\ UNCHANGED <<graphVars, panelVars>>

\* One call of sort
Sort ==
    /\ \E r \in sort(batches) : batches' = r
    /\ last' = "sort"
    /\ UNCHANGED <<batch_map, calls, graphVars, panelVars>>

Next == Push \/ Sort

Spec == Init /\ [][Next]_vars

\* Push calls only
NextPush == Push

SpecPush == Init /\ [][NextPush]_vars

(***************************************************************************)
(* from_graph                                                              *)
(***************************************************************************)

\* Number of nodes of the graphs explored.
MaxNodes == 2

\* The from_graph calls explored: two passes over the same graph.
PassIds == {1, 2}

PassNames == {"GBuffer", "Shadow"}

\* A surface a node contributes: the arguments of one push call.
Surface(a, sort_index) ==
    [data |-> a.data, material |-> a.material, render_path |-> a.render_path,
     decal_layer_index |-> a.decal_layer_index, sort_index |-> sort_index,
     bone_matrices |-> a.bone_matrices]

NodeKinds == {"Pivot", "Mesh", "Sprite", "SkinnedMesh", "ShadowCaster"}

\* NodeTrait::collect_render_data: the surfaces a node pushes, in order, as a
\* function of the context. A pivot has no surfaces; a mesh and a skinned mesh
\* cull against the frustum and take everything as out of view under the
\* default frustum; a sprite does not cull; a shadow caster contributes to the
\* shadow pass only.
collect_render_data(node, frustum, render_pass_name) ==
    CASE node = "Pivot" -> <<>>
      [] node = "Mesh" ->
            IF frustum = "derived" THEN <<Surface(BaseArgs, 20)>> ELSE <<>>
      [] node = "Sprite" ->
            <<Surface([BaseArgs EXCEPT !.render_path = Forward], 10)>>
      [] node = "SkinnedMesh" ->
            IF frustum = "derived"
            THEN <<Surface([BaseArgs EXCEPT !.bone_matrices = <<"identity">>], 30),
                   Surface(BaseArgs, 10)>>
            ELSE <<>>
      [] node = "ShadowCaster" ->
            IF render_pass_name = "Shadow"
            THEN <<Surface([BaseArgs EXCEPT !.decal_layer_index = 1], 20)>>
            ELSE <<>>

\* The graphs explored: up to MaxNodes nodes, in linear order.
Graphs == UNION {[1..n -> NodeKinds] : n \in 0..MaxNodes}

\* graph.linear_iter(): the positions of the nodes, in linear order.
LinearIter_reversed(g) == [i \in 1..Len(g) |-> Len(g) + 1 - i]

LinearIter(g) == [i \in 1..Len(g) |-> i]

\* Frustum::from_view_projection_matrix(projection * view): None when the
\* product cannot be inverted.
FromViewProjectionMatrix(invertible) == IF invertible THEN "derived" ELSE "None"

\* Option::unwrap: panics on None
Unwrap(frustum) == IF frustum = "None" THEN "panic" ELSE frustum

\* Option::unwrap_or_default
UnwrapOrDefault(frustum) == IF frustum = "None" THEN "default" ELSE frustum

\* A storage that starts with `capacity` placeholder batches
NewStorage_prefilled(capacity) ==
    [batch_map |-> <<>>,
     batches |-> [i \in 1..capacity |->
                     RenderDataBatch(D1, 0, M1, FALSE, Deferred, 0)]]

\* The storage of the first pass taken over instead of a fresh one
NewStorage_reused(capacity) == passes[1].storage

\* The storage from_graph starts with: map and vector empty, with capacity
\* for `capacity` entries.
NewStorage(capacity) == [batch_map |-> <<>>, batches |-> <<>>]

\* The storage the context of pass p borrows: one storage for all passes
CtxStorage_shared(p) == 1

\* The storage the context of pass p borrows: the pass's own.
CtxStorage(p) == p

\* The push calls of one node on a storage, in order; instances are numbered
\* from `count` + 1.
RECURSIVE PushAll(_, _, _)
PushAll(self, surfaces, count) ==
    IF surfaces = <<>> THEN self
    ELSE LET s == Head(surfaces)
         IN  PushAll(push(self, s.data, s.material, s.render_path,
                          s.decal_layer_index, s.sort_index,
                          [id |-> count + 1, bone_matrices |-> s.bone_matrices]),
                     Tail(surfaces), count + 1)

\* The push calls of one node, with the position of the node, for the history.
Called(surfaces, n) ==
    [i \in 1..Len(surfaces) |-> [node |-> n, surface |-> surfaces[i]]]

\* A from_graph call that has not started, with its arguments.
IdlePass(invertible, render_pass_name) ==
    [projection_view_invertible |-> invertible,
     render_pass_name |-> render_pass_name,
     pc |-> "idle", frustum |-> "None", next |-> 0,
     storage |-> [batch_map |-> <<>>, batches |-> <<>>],
     calls |-> <<>>, asked |-> <<>>, sorts |-> <<>>]

GraphInit ==
    /\ graph \in Graphs
    /\ passes \in [PassIds -> {IdlePass(i, n) : i \in BOOLEAN, n \in PassNames}]
    /\ StorageInit
    /\ PanelIdle

\* from_graph up to the loop: the storage, the frustum and the context.
FromGraphBegin(p) ==
    /\ passes[p].pc = "idle"
    /\ LET frustum == UnwrapOrDefault(
               FromViewProjectionMatrix(passes[p].projection_view_invertible))
       IN  passes' = [passes EXCEPT ![p] =
               IF frustum = "panic"
               THEN [@ EXCEPT !.pc = "panicked"]
               ELSE [@ EXCEPT !.pc = "iter", !.frustum = frustum, !.next = 1,
                              !.storage = NewStorage(Len(graph))]]
    /\ UNCHANGED <<graph, storageVars, panelVars>>

\* One turn of the loop: the next node of the graph collects its render data.
CollectRenderData(p) ==
    /\ passes[p].pc = "iter"
    /\ passes[p].next <= Len(LinearIter(graph))
    /\ LET n == LinearIter(graph)[passes[p].next]
           surfaces == collect_render_data(graph[n], passes[p].frustum,
                                           passes[p].render_pass_name)
           q == CtxStorage(p)
       IN  passes' = [passes EXCEPT
               ![q].storage = PushAll(@, surfaces, Len(passes[p].calls)),
               ![p].calls = @ \o Called(surfaces, n),
               ![p].asked = Append(@, n),
               ![p].next = @ + 1]
    /\ UNCHANGED <<graph, storageVars, panelVars>>

\* After the loop: storage.sort(), and the storage is returned.
FromGraphSort(p) ==
    /\ passes[p].pc = "iter"
    /\ passes[p].next > Len(LinearIter(graph))
    /\ \E r \in sort(passes[p].storage.batches) :
        passes' = [passes EXCEPT
            ![p].storage.batches = r,
            ![p].sorts = Append(@, Len(passes[p].asked)),
            ![p].pc = "done"]
    /\ UNCHANGED <<graph, storageVars, panelVars>>

NextGraph ==
    \E p \in PassIds :
        FromGraphBegin(p) \/ CollectRenderData(p) \/ FromGraphSort(p)

SpecGraph == GraphInit /\ [][NextGraph]_vars

(***************************************************************************)
(* Vocabulary of the properties                                            *)
(***************************************************************************)

\* The five grouping components of a push call.
GroupingTuple(c) ==
    <<c.material, c.data, c.instance_data.bone_matrices # <<>>,
      c.render_path, c.decal_layer_index>>

\* The calls whose instance lies in batch b.
Contributors(b) == {b.instances[i].id : i \in 1..Len(b.instances)}

\* The batches (positions in the vector) that hold the instance of call k.
BatchesOf(k) == {n \in 1..Len(batches) : k \in Contributors(batches[n])}

\* The call that created batch b: the earliest call that contributed to it.
Creator(b) ==
    calls[CHOOSE k \in Contributors(b) : \A l \in Contributors(b) : k <= l]

\* The fingerprint of a call.
Fingerprint(c) ==
    Key(c.material, c.data, c.instance_data.bone_matrices # <<>>,
        c.decal_layer_index, c.render_path)

AllFingerprints == {Fingerprint(c) : c \in
    [material : MaterialKeys, data : DataKeys, render_path : RenderPaths,
     decal_layer_index : DecalLayers,
     instance_data : [bone_matrices : BoneMatrices]]}

(***************************************************************************)
(* Properties                                                              *)
(***************************************************************************)

\* C1: after any sequence of push calls, two pushed instances with identical
\* grouping tuples (material key, data key, skinning flag, render path, decal
\* layer) lie in the instance list of one and the same batch.
C1_SameTupleSameBatch ==
    \A k1, k2 \in 1..Len(calls) :
        GroupingTuple(calls[k1]) = GroupingTuple(calls[k2])
            => /\ BatchesOf(k1) = BatchesOf(k2)
               /\ Cardinality(BatchesOf(k1)) = 1

\* Calls 1 and 3 have the same grouping tuple but different sort indices, call
\* 2 another tuple, and the instances of 1 and 3 share a batch.
C1_Witness ==
    /\ Len(calls) >= 3
    /\ GroupingTuple(calls[1]) = GroupingTuple(calls[3])
    /\ GroupingTuple(calls[1]) # GroupingTuple(calls[2])
    /\ calls[1].sort_index # calls[3].sort_index
    /\ \E n \in 1..Len(batches) : {1, 3} \subseteq Contributors(batches[n])

\* C2: after any sequence of push calls, two pushed instances whose grouping
\* tuples differ in at least one of the five components lie in different
\* batches.
C2_DifferentTupleDifferentBatch ==
    \A k1, k2 \in 1..Len(calls) :
        GroupingTuple(calls[k1]) # GroupingTuple(calls[k2])
            => BatchesOf(k1) \cap BatchesOf(k2) = {}

\* C3: batch_map[f] = i if and only if batches[i] is the batch that was
\* created from fingerprint f, in every state reachable by push and sort.
C3_MapConsistent ==
    \A f \in AllFingerprints : \A i \in 0..(Len(batches) - 1) :
        (f \in DOMAIN batch_map /\ batch_map[f] = i)
            <=> Fingerprint(Creator(batches[i + 1])) = f

\* C4: for every batch and every instance in it, the data, material, render
\* path and decal layer index of the push call that contributed the instance
\* equal those stored in the batch.
C4_BatchMatchesCalls ==
    \A n \in 1..Len(batches) : \A k \in Contributors(batches[n]) :
        /\ calls[k].data = batches[n].data
        /\ calls[k].material = batches[n].material
        /\ calls[k].render_path = batches[n].render_path
        /\ calls[k].decal_layer_index = batches[n].decal_layer_index

\* C5: a batch's is_skinned flag is true if and only if its instances have
\* non-empty bone matrices, and all instances of a batch agree on this.
C5_SkinnedConsistent ==
    \A n \in 1..Len(batches) : \A i \in 1..Len(batches[n].instances) :
        batches[n].is_skinned <=> batches[n].instances[i].bone_matrices # <<>>

\* C6: between operations every batch of the storage has a non-empty instance
\* list.
C6_NoEmptyBatch ==
    \A n \in 1..Len(batches) : batches[n].instances # <<>>

\* Three pushes have returned and left several batches, one of them with
\* more than one instance.
C6_Witness ==
    /\ last = "push"
    /\ Len(calls) >= 3
    /\ Len(batches) >= 2
    /\ \E n \in 1..Len(batches) : Len(batches[n].instances) >= 2

\* C7: within a batch, instances[i] precedes instances[j] if and only if the
\* push call that produced instance i happened before the one that produced
\* instance j.
C7_InsertionOrder ==
    \A n \in 1..Len(batches) : \A i, j \in 1..Len(batches[n].instances) :
        i < j <=> batches[n].instances[i].id < batches[n].instances[j].id

\* A batch holds the instances of calls 1 and 3, in this order, while call 2
\* went to another batch.
C7_Witness ==
    /\ Len(batches) >= 2
    /\ \E n \in 1..Len(batches) :
        /\ Len(batches[n].instances) = 2
        /\ batches[n].instances[1].id = 1
        /\ batches[n].instances[2].id = 3

\* C8: a batch's sort_index is the sort_index argument of the push call that
\* created it, whatever later pushes with the same fingerprint and sort calls
\* followed.
C8_FirstWriterWins ==
    \A n \in 1..Len(batches) :
        batches[n].instances # <<>>
            => batches[n].sort_index = Creator(batches[n]).sort_index

\* A batch received a later instance pushed with a smaller sort index than the
\* one it was created with, and sort has run since.
C8_Witness ==
    /\ last = "sort"
    /\ \E n \in 1..Len(batches) : \E k \in Contributors(batches[n]) :
        /\ Fingerprint(calls[k]) = Fingerprint(Creator(batches[n]))
        /\ calls[k].sort_index < Creator(batches[n]).sort_index
        /\ batches[n].sort_index = Creator(batches[n]).sort_index

\* C9: immediately after sort returns, batches is non-decreasing in
\* sort_index.
C9_SortedAfterSort ==
    last = "sort" =>
        \A i, j \in 1..Len(batches) :
            i < j => batches[i].sort_index <= batches[j].sort_index

\* sort has just returned on three batches created with sort indices 30, 10
\* and 20, now in the order 10, 20, 30.
C9_Witness ==
    /\ last = "sort"
    /\ Len(batches) = 3
    /\ <<batches[1].instances[1].id, batches[2].instances[1].id,
         batches[3].instances[1].id>> = <<2, 3, 1>>
    /\ <<batches[1].sort_index, batches[2].sort_index,
         batches[3].sort_index>> = <<10, 20, 30>>

\* C10: sort only permutes whole batches: none is added, dropped or
\* duplicated, and every batch keeps its instances (contents and order) and
\* its data, material, is_skinned, render_path, decal_layer_index and
\* sort_index.
C10_SortPermutes ==
    [][last' = "sort" =>
        /\ Len(batches') = Len(batches)
        /\ \E p \in Permutations(1..Len(batches)) :
            \A i \in 1..Len(batches) : batches'[i] = batches[p[i]]]_vars

\* sort has just returned having moved a batch of two instances behind a
\* batch created after it.
C10_Witness ==
    /\ last = "sort"
    /\ Len(batches) = 2
    /\ Len(batches[2].instances) = 2
    /\ batches[2].instances[1].id < batches[1].instances[1].id
    /\ batches[2].sort_index > batches[1].sort_index

C12_PushInfallible ==
    /\ \A f \in DOMAIN batch_map :
        batch_map[f] >= 0 /\ batch_map[f] < Len(batches)
    /\ \A k \in 1..Len(calls) : BatchesOf(k) # {}

\* A push with a known fingerprint has returned after sort had reordered the
\* two batches.
C12_Witness ==
    /\ last = "push"
    /\ Len(calls) = 3
    /\ Len(batches) = 2
    /\ batches[2].instances[1].id < batches[1].instances[1].id

RECURSIVE TotalInstances(_)
TotalInstances(bs) ==
    IF bs = <<>> THEN 0
    ELSE Len(Head(bs).instances) + TotalInstances(Tail(bs))

\* C18: a push appends one new batch when its fingerprint was not pushed
\* before and none otherwise, appends its instance to exactly one batch and
\* leaves every other batch as it was; after it, there are as many batches as
\* distinct fingerprints pushed and as many instances as push calls.
C18_PushChangesOneBatch ==
    [][(last' = "push" /\ Len(calls') = Len(calls) + 1) =>
        LET call == calls'[Len(calls')]
            unseen == \A k \in 1..Len(calls) :
                          Fingerprint(calls[k]) # Fingerprint(call)
        IN  /\ Len(batches') = Len(batches) + (IF unseen THEN 1 ELSE 0)
            /\ \E n \in 1..Len(batches') :
                /\ unseen <=> n > Len(batches)
                /\ batches'[n].instances =
                       Append(IF unseen THEN <<>> ELSE batches[n].instances,
                              call.instance_data)
                /\ ~unseen =>
                       batches'[n] = [batches[n] EXCEPT
                                         !.instances = batches'[n].instances]
                /\ \A m \in 1..Len(batches) : m # n => batches'[m] = batches[m]
            /\ Len(batches') =
                   Cardinality({Fingerprint(calls'[k]) : k \in 1..Len(calls')})
            /\ TotalInstances(batches') = Len(calls')]_vars

\* Three pushes with one grouping key have left one batch of three instances.
C18_Witness ==
    /\ Len(calls) = 3
    /\ Len(batches) = 1
    /\ Len(batches[1].instances) = 3
    /\ GroupingTuple(calls[1]) = GroupingTuple(calls[2])
    /\ GroupingTuple(calls[2]) = GroupingTuple(calls[3])

(***************************************************************************)
(* Properties of from_graph                                                *)
(***************************************************************************)

\* What the nodes of g push, in linear order, under a frustum and pass name.
RECURSIVE Contributions(_, _, _, _)
Contributions(g, frustum, name, i) ==
    IF i > Len(g) THEN <<>>
    ELSE Called(collect_render_data(g[i], frustum, name), i)
             \o Contributions(g, frustum, name, i + 1)

SurfacesOf(called) == [i \in 1..Len(called) |-> called[i].surface]

\* The storages from_graph returns when it runs alone.
Alone(g, invertible, name) ==
    LET frustum == UnwrapOrDefault(FromViewProjectionMatrix(invertible))
        st == PushAll(NewStorage(Len(g)),
                      SurfacesOf(Contributions(g, frustum, name, 1)), 0)
    IN  {[st EXCEPT !.batches = r] : r \in sort(st.batches)}

\* The batches of a storage that hold the instance of call k.
HoldersIn(storage, k) ==
    {n \in 1..Len(storage.batches) : k \in Contributors(storage.batches[n])}

\* C13: from_graph asks every node exactly once, in linear order, to collect
\* into the same storage and sorts only after the last node; the returned
\* storage is non-decreasing in sort_index and, within a batch, instances are
\* in the traversal order of their contributions.
C13_CollectionProtocol ==
    \A p \in PassIds :
        LET pass == passes[p]
            bs == pass.storage.batches
        IN  /\ \A i \in 1..Len(pass.asked) : pass.asked[i] = i
            /\ Len(pass.asked) <= Len(graph)
            /\ pass.sorts # <<>> =>
                   pass.sorts = <<Len(graph)>> /\ pass.pc = "done"
            /\ \A k \in 1..Len(pass.calls) :
                   Cardinality(HoldersIn(pass.storage, k)) = 1
            /\ pass.pc = "done" =>
                /\ Len(pass.asked) = Len(graph)
                /\ pass.sorts = <<Len(graph)>>
                /\ \A i, j \in 1..Len(bs) :
                       i < j => bs[i].sort_index <= bs[j].sort_index
                /\ \A n \in 1..Len(bs) : \A i, j \in 1..Len(bs[n].instances) :
                       i < j =>
                           /\ bs[n].instances[i].id < bs[n].instances[j].id
                           /\ pass.calls[bs[n].instances[i].id].node
                                  <= pass.calls[bs[n].instances[j].id].node

\* A pass has returned a storage whose first batch holds instances of both
\* nodes of the graph and was moved to the front by sort.
C13_Witness ==
    /\ Len(graph) = 2
    /\ passes[1].pc = "done"
    /\ Len(passes[1].storage.batches) = 2
    /\ LET bs == passes[1].storage.batches
       IN  /\ {passes[1].calls[k].node : k \in Contributors(bs[1])} = {1, 2}
           /\ bs[2].instances[1].id < bs[1].instances[1].id

C15_DegenerateFrustum ==
    \A p \in PassIds :
        ~passes[p].projection_view_invertible =>
            LET pass == passes[p]
                pushed == Contributions(graph, "default", pass.render_pass_name, 1)
            IN  /\ pass.pc # "panicked"
                /\ pass.pc \in {"iter", "done"} => pass.frustum = "default"
                /\ pass.pc = "done" =>
                    /\ Len(pass.asked) = Len(graph)
                    /\ pass.sorts = <<Len(graph)>>
                    /\ pass.calls = pushed
                    /\ \A k \in 1..Len(pushed) :
                           Cardinality(HoldersIn(pass.storage, k)) = 1
                    /\ TotalInstances(pass.storage.batches) = Len(pushed)
                    /\ pushed = <<>> => pass.storage.batches = <<>>

\* A call with a product that cannot be inverted has returned: the mesh was
\* culled under the default frustum, the sprite is in the storage.
C15_Witness ==
    /\ ~passes[1].projection_view_invertible
    /\ passes[1].pc = "done"
    /\ graph = <<"Mesh", "Sprite">>
    /\ Len(passes[1].storage.batches) = 1
    /\ passes[1].storage.batches[1].render_path = Forward

\* C16: on a graph with no nodes, or whose nodes push nothing, from_graph
\* returns a storage with no batches and an empty fingerprint map; sort on the
\* empty storage leaves it empty.
C16_EmptyGraph ==
    \A p \in PassIds :
        (/\ passes[p].pc = "done"
         /\ \A i \in 1..Len(graph) :
                collect_render_data(graph[i], passes[p].frustum,
                                    passes[p].render_pass_name) = <<>>)
        => /\ passes[p].storage.batches = <<>>
           /\ passes[p].storage.batch_map = <<>>

\* from_graph has returned on the graph without nodes.
C16_Witness ==
    /\ graph = <<>>
    /\ passes[1].pc = "done"
    /\ passes[1].sorts = <<0>>
    /\ passes[1].storage.batches = <<>>

\* C17: two from_graph passes over the same graph that run interleaved, each
\* on its own storage, each return a storage the pass returns when it runs
\* alone, and no step of a pass changes the graph.
C17_PassesIndependent ==
    [][/\ graph' = graph
       /\ \A p \in PassIds :
              passes'[p].pc = "done" =>
                  passes'[p].storage \in
                      Alone(graph', passes'[p].projection_view_invertible,
                            passes'[p].render_pass_name)]_vars

\* The first pass has returned batches while the second, with another pass
\* name, is in the middle of the graph and has pushed already.
C17_Witness ==
    /\ Len(graph) = 2
    /\ passes[1].pc = "done"
    /\ passes[1].storage.batches # <<>>
    /\ passes[2].pc = "iter"
    /\ passes[2].next = 2
    /\ passes[2].storage.batches # <<>>
    /\ passes[1].render_pass_name # passes[2].render_pass_name

(***************************************************************************)
(* ParticleSystemPreviewControlPanel (editor/src/particle.rs)              *)
(*                                                                         *)
(* selection is editor_scene.selection, scene_graph the nodes of the       *)
(* edited scene by handle, node_overrides the set                          *)
(* editor_scene.graph_switches.node_overrides, preview_checked the state   *)
(* of the preview check box, window_open that of the panel's window, and   *)
(* panic the assertion that has failed, if any.                            *)
(***************************************************************************)
MaxSelection == 2

Handles == {1, 2, 3}

ParticleSystemNode(is_playing, particles) == [kind |-> "ParticleSystem", is_playing |-> is_playing, particles |-> particles]

MeshNode == [kind |-> "Mesh", is_playing |-> FALSE, particles |-> 0]

\* The scene the panel works on: two particle systems and a mesh.
InitialSceneGraph ==
    (1 :> ParticleSystemNode(TRUE, 1)) @@ (2 :> ParticleSystemNode(FALSE, 1))
        @@ (3 :> MeshNode)

\* Selection::Graph holds a list of distinct node handles.
GraphSelections ==
    {[kind |-> "Graph", nodes |-> ns] :
        ns \in {q \in UNION {[1..n -> Handles] : n \in 1..MaxSelection} :
                   \A i, j \in 1..Len(q) : i # j => q[i] # q[j]}}

Selections ==
    {[kind |-> "None", nodes |-> <<>>], [kind |-> "Navmesh", nodes |-> <<>>]}
        \cup GraphSelections

SceneCommands == {"DoSceneCommand", "UndoSceneCommand", "RedoSceneCommand"}

Buttons == {"play", "pause", "stop", "rewind"}

\* scene.graph.try_get_of_type::<ParticleSystem>(handle).is_some()
IsParticleSystem(g, handle) == g[handle].kind = "ParticleSystem"

\* HashSet::remove that answers without removing
HashSetRemove_kept(set, value) == [set |-> set, ok |-> value \in set]

\* HashSet::insert and HashSet::remove with their boolean answers
HashSetInsert(set, value) == [set |-> set \cup {value}, ok |-> value \notin set]

HashSetRemove(set, value) == [set |-> set \ {value}, ok |-> value \in set]

\* The panel and the editor data one handler works on.
PanelState == [selection |-> selection, scene_graph |-> scene_graph, particle_systems_state |-> particle_systems_state, node_overrides |-> node_overrides, panic |-> panic]

\* The loop of enter_preview_mode from the i-th selected node on.
RECURSIVE EnterLoop(_, _)
EnterLoop(st, i) ==
    IF i > Len(st.selection.nodes) \/ st.panic # "none" THEN st
    ELSE LET node_handle == st.selection.nodes[i]
             inserted == HashSetInsert(st.node_overrides, node_handle)
         IN  IF IsParticleSystem(st.scene_graph, node_handle)
             THEN EnterLoop([st EXCEPT
                      !.particle_systems_state =
                          Append(@, <<node_handle, st.scene_graph[node_handle]>>),
                      !.node_overrides = inserted.set,
                      !.panic = IF inserted.ok THEN "none" ELSE "particle.rs:161"],
                      i + 1)
             ELSE EnterLoop(st, i + 1)

enter_preview_mode(st) ==
    IF st.particle_systems_state # <<>>
    THEN [st EXCEPT !.panic = "particle.rs:145"]
    ELSE IF st.selection.kind = "Graph" THEN EnterLoop(st, 1) ELSE st

\* leave_preview_mode that drains without writing the saved nodes back
RECURSIVE leave_preview_mode_unrestored(_)
leave_preview_mode_unrestored(st) ==
    IF st.particle_systems_state = <<>> \/ st.panic # "none" THEN st
    ELSE LET removed == HashSetRemove(st.node_overrides, Head(st.particle_systems_state)[1])
         IN  leave_preview_mode_unrestored([st EXCEPT
                 !.particle_systems_state = Tail(@),
                 !.node_overrides = removed.set,
                 !.panic = IF removed.ok THEN "none" ELSE "particle.rs:174"])

\* leave_preview_mode drains the saved nodes front to back.
RECURSIVE leave_preview_mode(_)
leave_preview_mode(st) ==
    IF st.particle_systems_state = <<>> \/ st.panic # "none" THEN st
    ELSE LET particle_system_handle == Head(st.particle_systems_state)[1]
             original == Head(st.particle_systems_state)[2]
             removed == HashSetRemove(st.node_overrides, particle_system_handle)
         IN  leave_preview_mode([st EXCEPT
                 !.particle_systems_state = Tail(@),
                 !.scene_graph = [@ EXCEPT ![particle_system_handle] = original],
                 !.node_overrides = removed.set,
                 !.panic = IF removed.ok THEN "none" ELSE "particle.rs:174"])

\* ParticleSystem::play and ParticleSystem::clear_particles
Play(node, is_playing) == [node EXCEPT !.is_playing = is_playing]

ClearParticles(node) == [node EXCEPT !.particles = 0]

\* What a click on a button of the panel does to one particle system.
ClickOn(node, button) ==
    CASE button = "play" -> Play(node, TRUE)
      [] button = "pause" -> Play(node, FALSE)
      [] button = "stop" -> ClearParticles(Play(node, FALSE))
      [] button = "rewind" -> ClearParticles(node)

Selected(sel) == {sel.nodes[i] : i \in 1..Len(sel.nodes)}

Commit(st) ==
    /\ scene_graph' = st.scene_graph
    /\ particle_systems_state' = st.particle_systems_state
    /\ node_overrides' = st.node_overrides
    /\ panic' = st.panic

\* The record of a handler call: its message and what it started from.
Handled(message, st) == [message |-> message, before |-> [scene_graph |-> st.scene_graph, particle_systems_state |-> st.particle_systems_state, node_overrides |-> st.node_overrides]]

PanelInit ==
    /\ selection = [kind |-> "None", nodes |-> <<>>]
    /\ scene_graph = InitialSceneGraph
    /\ particle_systems_state = <<>>
    /\ node_overrides = {}
    /\ preview_checked = FALSE
    /\ window_open = FALSE
    /\ panic = "none"
    /\ handled = Handled("none", PanelState)
    /\ StorageInit
    /\ GraphIdle

\* handle_message that leaves preview mode on DoSceneCommand only
HandleSceneCommand_do_only ==
    /\ panic = "none"
    /\ \E message \in SceneCommands :
        /\ IF message = "DoSceneCommand"
           THEN Commit(leave_preview_mode(PanelState))
           ELSE Commit(PanelState)
        /\ handled' = Handled(message, PanelState)
    /\ UNCHANGED <<selection, preview_checked, window_open, storageVars, graphVars>>

\* handle_message(DoSceneCommand | UndoSceneCommand | RedoSceneCommand)
HandleSceneCommand ==
    /\ panic = "none"
    /\ \E message \in SceneCommands :
        /\ Commit(leave_preview_mode(PanelState))
        /\ handled' = Handled(message, PanelState)
    /\ UNCHANGED <<selection, preview_checked, window_open, storageVars, graphVars>>

\* handle_message(SelectionChanged) after the editor has set the selection
HandleSelectionChanged ==
    /\ panic = "none"
    /\ \E new \in Selections :
        /\ selection' = new
        /\ window_open' =
               IF new.kind = "Graph"
               THEN \E n \in Selected(new) : IsParticleSystem(scene_graph, n)
               ELSE window_open
    /\ handled' = Handled("SelectionChanged", PanelState)
    /\ UNCHANGED <<scene_graph, particle_systems_state, node_overrides, preview_checked, panic, storageVars, graphVars>>

\* handle_ui_message(ButtonMessage::Click) from a button of the open window
HandleClick ==
    /\ panic = "none"
    /\ window_open
    /\ \E button \in Buttons :
        scene_graph' =
            IF selection.kind = "Graph"
            THEN [h \in Handles |->
                     IF h \in Selected(selection) /\ IsParticleSystem(scene_graph, h)
                     THEN ClickOn(scene_graph[h], button)
                     ELSE scene_graph[h]]
            ELSE scene_graph
    /\ handled' = Handled("Click", PanelState)
    /\ UNCHANGED <<selection, particle_systems_state, node_overrides, preview_checked, window_open, panic, storageVars, graphVars>>

\* handle_ui_message(CheckBoxMessage::Check(Some(value))) sent by the preview
\* check box of the open window when a click has toggled it
HandleCheck ==
    /\ panic = "none"
    /\ window_open
    /\ preview_checked' = ~preview_checked
    /\ LET value == ~preview_checked
       IN  IF selection.kind = "Graph"
           THEN IF value THEN Commit(enter_preview_mode(PanelState))
                ELSE Commit(leave_preview_mode(PanelState))
           ELSE Commit(PanelState)
    /\ handled' = Handled("Check", PanelState)
    /\ UNCHANGED <<selection, window_open, storageVars, graphVars>>

NextPanel ==
    \/ HandleSceneCommand
    \/ HandleSelectionChanged
    \/ HandleClick
    \/ HandleCheck

SpecPanel == PanelInit /\ [][NextPanel]_vars

SavedHandles == {particle_systems_state[i][1] : i \in 1..Len(particle_systems_state)}

\* C19: under every sequence of panel events particle_systems_state is empty
\* whenever enter_preview_mode is invoked, so its first assertion never fails.
C19_EnterAssertionHolds == panic # "particle.rs:145"

HandlesOf(saved) == {saved[i][1] : i \in 1..Len(saved)}

\* Every node of a saved list is in graph g as it was saved.
Restored(g, saved) == \A i \in 1..Len(saved) : g[saved[i][1]] = saved[i][2]

\* C21: enter_preview_mode saves the selected particle systems as they are,
\* nothing changes the saved list during preview, and leave_preview_mode
\* writes every saved node back as saved, removes exactly the saved handles
\* from node_overrides, touches no other node and empties
\* particle_systems_state; called outside preview mode it changes nothing.
C21_RoundTrip ==
    [][LET saved == particle_systems_state
           leave_called ==
               \/ handled'.message \in SceneCommands
               \/ /\ handled'.message = "Check"
                  /\ ~preview_checked'
                  /\ selection.kind = "Graph"
       IN  /\ (saved = <<>> /\ particle_systems_state' # <<>>) =>
                  /\ Restored(scene_graph, particle_systems_state')
                  /\ scene_graph' = scene_graph
                  /\ node_overrides' = node_overrides \cup HandlesOf(particle_systems_state')
           /\ (saved # <<>> /\ particle_systems_state' # <<>>) =>
                  particle_systems_state' = saved
           /\ leave_called =>
                  /\ panic' = "none"
                  /\ particle_systems_state' = <<>>
                  /\ Restored(scene_graph', saved)
                  /\ \A h \in Handles \ HandlesOf(saved) :
                         scene_graph'[h] = scene_graph[h]
                  /\ node_overrides' = node_overrides \ HandlesOf(saved)
                  /\ saved = <<>> =>
                         scene_graph' = scene_graph /\ node_overrides' = node_overrides]_vars

\* Unchecking the preview has just left a preview of both particle systems:
\* one of them had been changed by a button and is back as it was saved.
C21_Witness ==
    /\ handled.message = "Check"
    /\ ~preview_checked
    /\ selection.kind = "Graph"
    /\ panic = "none"
    /\ Len(handled.before.particle_systems_state) = 2
    /\ particle_systems_state = <<>>
    /\ node_overrides = {}
    /\ Restored(scene_graph, handled.before.particle_systems_state)
    /\ ~Restored(handled.before.scene_graph, handled.before.particle_systems_state)

\* C22: when handle_message has handled a DoSceneCommand, UndoSceneCommand or
\* RedoSceneCommand the panel is out of preview mode: particle_systems_state
\* is empty and every node that was saved is back in the scene graph as
\* saved, whatever the selection and the preview check box are.
C22_SceneCommandLeavesPreview ==
    handled.message \in SceneCommands =>
        /\ panic = "none"
        /\ particle_systems_state = <<>>
        /\ Restored(scene_graph, handled.before.particle_systems_state)
        /\ node_overrides \cap HandlesOf(handled.before.particle_systems_state) = {}

\* An undo has just ended a preview while the selection was not a graph
\* selection and the preview box stayed checked; the changed node is back.
C22_Witness ==
    /\ handled.message = "UndoSceneCommand"
    /\ preview_checked
    /\ selection.kind = "Navmesh"
    /\ panic = "none"
    /\ handled.before.particle_systems_state # <<>>
    /\ ~Restored(handled.before.scene_graph, handled.before.particle_systems_state)
    /\ Restored(scene_graph, handled.before.particle_systems_state)
    /\ particle_systems_state = <<>>

====
